---- MODULE Spec2Model ----
(***************************************************************************)
(* Model of the routing server: the node accessor (src/data/node.rs), the  *)
(* tag-driven edge costs and the parallel A* search (src/astar.rs).        *)
(*                                                                         *)
(* The external store (planet_osm_nodes / planet_osm_ways) is a record     *)
(*   [nodes : Seq([lat, lon]), ways : Seq([tags, nodes])]                  *)
(* where node ids are the positions 1..Len(nodes) and a way may list ids   *)
(* that are missing from the node table.  Tags are sets of <<key, value>>. *)
(***************************************************************************)
EXTENDS Integers, Sequences, FiniteSets, TLC

VARIABLES
    w,              \* which store / request the behaviour is about
    to_see,         \* astar: the BinaryHeap, a set of SmallestCostHolder
    parents,        \* astar: the IndexMap, a sequence of [node, parent, cost]
    done,           \* astar: the AtomicBool
    parents_lock,   \* astar: owner of the parents mutex, <<>> when free
    to_see_lock,    \* astar: owner of the to_see mutex, <<>> when free
    rx_to_see_push, \* astar: messages waiting in the push channel
    rx_success,     \* astar: messages waiting in the success channel
    dispatcher,     \* astar: position of the dispatcher closure
    workers,        \* astar: the tasks spawned on the pool and not finished
    main,           \* astar: position of the calling thread
    r,              \* astar: the value the calling thread received
    prev_cost,      \* cost returned by the previous call with the same input
    cache,          \* NODE_CACHE: id -> Node
    callers,        \* Node::get: one record per concurrent caller
    deadline,       \* Node::route: the wall clock against the time limit
    route           \* Node::route: what the request ended with

vars == <<w, to_see, parents, done, parents_lock, to_see_lock,
          rx_to_see_push, rx_success,
          dispatcher, workers, main, r, prev_cost, cache, callers,
          deadline, route>>

astarVars == <<to_see, parents, done, parents_lock, to_see_lock,
               rx_to_see_push,
               rx_success, dispatcher, workers, main, r, prev_cost,
               deadline, route>>

cacheVars == <<cache, callers>>

(***************************************************************************)
(* Tags                                                                    *)
(***************************************************************************)
has_tag_value(tags, key, value) == <<key, value>> \in tags

has_tag(tags, key) == \E p \in tags : p[1] = key

(***************************************************************************)
(* The stores.  All nodes lie on the meridian lon = 0; latitudes are in    *)
(* 1e-7 degrees, 900 units being about 10 m.                               *)
(***************************************************************************)
P(lat) == [lat |-> lat, lon |-> 0]

Way(tags, nodes) == [tags |-> tags, nodes |-> nodes]

\* A-B-C on one cycleway, 10 m per edge (end-to-end scenario 1).
LineWorld ==
    [nodes |-> <<P(0), P(900), P(1800)>>,
     ways  |-> <<Way({<<"highway", "cycleway">>}, <<1, 2, 3>>)>>,
     start |-> 1, end |-> 3, model |-> "Safe"]

\* The only edge to the goal is a motorway (end-to-end scenario 2).
MotorwayWorld ==
    [nodes |-> <<P(0), P(900)>>,
     ways  |-> <<Way({<<"highway", "motorway">>}, <<1, 2>>)>>,
     start |-> 1, end |-> 2, model |-> "Safe"]

\* A ferry 1 -> 3 of 10 m against a land route 1 -> 2 -> 3 of 30 m
\* (end-to-end scenario 3).
FerryWorld ==
    [nodes |-> <<P(0), P(1800), P(900)>>,
     ways  |-> <<Way({<<"route", "ferry">>, <<"bicycle", "yes">>}, <<1, 3>>),
                 Way({<<"highway", "residential">>}, <<1, 2, 3>>)>>,
     start |-> 1, end |-> 3, model |-> "Safe"]

\* Node 2 and the goal 3 are two nodes at the same position.
TwinWorld ==
    [nodes |-> <<P(0), P(900), P(900)>>,
     ways  |-> <<Way({<<"highway", "residential">>}, <<1, 2, 3>>)>>,
     start |-> 1, end |-> 3, model |-> "Fast"]

\* A one-way street 1 -> 2 -> 3.
OneWayWorld ==
    [nodes |-> <<P(0), P(900), P(1800)>>,
     ways  |-> <<Way({<<"highway", "residential">>, <<"oneway", "yes">>},
                     <<1, 2, 3>>)>>,
     start |-> 1, end |-> 3, model |-> "Safe"]

\* A one-way street that bicycles may use against the flow.
ContraflowWorld ==
    [nodes |-> <<P(0), P(900), P(1800)>>,
     ways  |-> <<Way({<<"highway", "residential">>, <<"oneway", "yes">>,
                      <<"oneway:bicycle", "no">>}, <<1, 2, 3>>)>>,
     start |-> 1, end |-> 3, model |-> "Safe"]

\* A way of an extract that runs out of it: node 4 is not in the node table;
\* node 3 is in the table but on no way.
ExtractWorld ==
    [nodes |-> <<P(0), P(900), P(1800)>>,
     ways  |-> <<Way({<<"highway", "residential">>}, <<1, 2, 4>>)>>,
     start |-> 1, end |-> 2, model |-> "Safe"]

\* A one-way ring 1 -> 2 -> 3 -> 1: a closed way lists its first node twice.
RoundaboutWorld ==
    [nodes |-> <<P(0), P(900), P(1800)>>,
     ways  |-> <<Way({<<"highway", "residential">>, <<"oneway", "yes">>,
                      <<"junction", "roundabout">>}, <<1, 2, 3, 1>>)>>,
     start |-> 1, end |-> 3, model |-> "Safe"]

\* Node 2 is also on a way that leaves the extract: Node::get of node 2
\* fails, and with it the expansion of node 1.
FailWorld ==
    [nodes |-> <<P(0), P(900), P(1800)>>,
     ways  |-> <<Way({<<"highway", "residential">>}, <<1, 2, 3>>),
                 Way({<<"highway", "residential">>}, <<2, 4>>)>>,
     start |-> 1, end |-> 3, model |-> "Safe"]

\* Stairs from 1 to the goal 2, and a street around them over 3.
MixedWorld ==
    [nodes |-> <<P(0), P(900), P(1800)>>,
     ways  |-> <<Way({<<"highway", "steps">>}, <<1, 2>>),
                 Way({<<"highway", "residential">>}, <<1, 3>>),
                 Way({<<"highway", "tertiary">>}, <<3, 2>>)>>,
     start |-> 1, end |-> 2, model |-> "Fast"]

\* Two ways run between 1 and 2: each expansion of 1 yields node 2 twice,
\* with the same cost.
ParallelWorld ==
    [nodes |-> <<P(0), P(900), P(1800)>>,
     ways  |-> <<Way({<<"highway", "residential">>}, <<1, 2, 3>>),
                 Way({<<"highway", "residential">>}, <<1, 2>>)>>,
     start |-> 1, end |-> 3, model |-> "Safe"]

\* A ferry 1 -> 3 and a land route 1 -> 2 -> 3, both one-way, with the goal
\* 4 one edge beyond 3: node 3 is expanded, not the goal.
DetourWorld ==
    [nodes |-> <<P(0), P(1800), P(900), P(2700)>>,
     ways  |-> <<Way({<<"route", "ferry">>, <<"bicycle", "yes">>,
                      <<"oneway", "yes">>}, <<1, 3>>),
                 Way({<<"highway", "residential">>, <<"oneway", "yes">>},
                     <<1, 2, 3, 4>>)>>,
     start |-> 1, end |-> 4, model |-> "Safe"]

\* A street 1 -> 2 -> 3 and a street 1 -> 3 along it, both one-way: the
\* entries of 2 (cost 10) and of 3 (cost 20) have the same estimated cost.
TieWorld ==
    [nodes |-> <<P(0), P(900), P(1800)>>,
     ways  |-> <<Way({<<"highway", "residential">>, <<"oneway", "yes">>},
                     <<1, 2, 3>>),
                 Way({<<"highway", "residential">>, <<"oneway", "yes">>},
                     <<1, 3>>)>>,
     start |-> 1, end |-> 3, model |-> "Safe"]

NamedWorlds ==
    <<LineWorld, MotorwayWorld, FerryWorld, TwinWorld, OneWayWorld,
      ContraflowWorld, ExtractWorld, RoundaboutWorld, FailWorld, MixedWorld,
      ParallelWorld, DetourWorld, TieWorld>>

\* One-edge stores: a way with the given tags from the start 1 to the goal
\* 2, for every tag set, length and profile below.
EdgeTags ==
    <<
      {<<"highway", "motorway">>},
      {<<"highway", "motorway_link">>},
      {<<"highway", "residential">>, <<"bicycle", "no">>},
      {<<"highway", "steps">>},
      {<<"highway", "construction">>},
      {<<"highway", "residential">>, <<"access", "private">>},
      {<<"highway", "residential">>, <<"source", "approximative">>},
      {<<"name", "quay">>},
      {<<"route", "ferry">>},
      {<<"bicycle", "yes">>},
      {<<"highway", "cycleway">>},
      {<<"highway", "residential">>, <<"bicycle", "designated">>},
      {<<"highway", "residential">>, <<"cycleway", "lane">>},
      {<<"highway", "residential">>, <<"cycleway:left", "track">>},
      {<<"highway", "residential">>, <<"cycleway:both", "opposite_lane">>},
      {<<"highway", "residential">>, <<"cycleway", "shared_lane">>, <<"surface", "dirt">>},
      {<<"highway", "residential">>, <<"route", "bicycle">>},
      {<<"highway", "cycleway">>, <<"route", "bicycle">>},
      {<<"highway", "cycleway">>, <<"surface", "dirt">>},
      {<<"highway", "footway">>},
      {<<"highway", "footway">>, <<"bicycle", "no">>},
      {<<"highway", "footway">>, <<"surface", "dirt">>},
      {<<"highway", "residential">>, <<"surface", "gravel">>},
      {<<"highway", "residential">>, <<"surface", "dirt">>},
      {<<"highway", "residential">>, <<"bicycle", "dismount">>},
      {<<"highway", "tertiary">>},
      {<<"highway", "secondary">>},
      {<<"highway", "service">>},
      {<<"highway", "path">>},
      {<<"highway", "residential">>, <<"access", "customers">>},
      {<<"highway", "primary">>},
      {<<"highway", "trunk">>},
      {<<"highway", "residential">>},
      {<<"highway", "cycleway">>, <<"maxspeed", "70">>},
      {<<"highway", "residential">>, <<"maxspeed", "50">>},
      {<<"highway", "residential">>, <<"maxspeed", "70">>},
      {<<"highway", "residential">>, <<"maxspeed", "walk">>},
      {<<"highway", "cycleway">>, <<"route", "ferry">>},
      {<<"highway", "cycleway">>, <<"route", "bicycle">>, <<"maxspeed", "70">>} >>

\* Latitudes of node 2 that put it 9 m, 10 m and 13 m from node 1.
EdgeLats == <<810, 900, 1170>>

EdgeModels == <<"Safe", "Fast">>

EdgeWorld(tags, lat, model) ==
    [nodes |-> <<P(0), P(lat)>>,
     ways  |-> <<Way(tags, <<1, 2>>)>>,
     start |-> 1, end |-> 2, model |-> model]

NumEdgeWorlds == Len(EdgeTags) * Len(EdgeLats) * Len(EdgeModels)

EdgeWorlds ==
    [k \in 1 .. NumEdgeWorlds |->
        EdgeWorld(EdgeTags[((k - 1) \div (Len(EdgeLats) * Len(EdgeModels))) + 1],
                  EdgeLats[(((k - 1) \div Len(EdgeModels)) % Len(EdgeLats)) + 1],
                  EdgeModels[((k - 1) % Len(EdgeModels)) + 1])]

Worlds == NamedWorlds \o EdgeWorlds

\* The requests the search is run on.
SearchWorlds == {1, 2, 3, 4, 9, 10, 11, 12, 13} \cup (Len(NamedWorlds) + 1 .. Len(Worlds))

\* The stores the accessor is run on.
StoreWorlds == {3, 5, 6, 7, 8}

\* The ids a caller may ask for: the node table of every store, and an id
\* that is in none.
Ids == 1 .. 4

(***************************************************************************)
(* distance (node.rs:45): haversine, truncated to whole metres.  For two   *)
(* points of the same meridian it is R * |dlat| with R = 6 371 000 m and   *)
(* dlat in radians, i.e. |dlat| * 0.0111195 m per unit of 1e-7 degree.     *)
(***************************************************************************)
Abs(x) == IF x < 0 THEN -x ELSE x

MicroMetresPerUnit == 111195

\* The difference of the latitudes with its sign.
SignedDistance(lat1, lon1, lat2, lon2) ==
    CASE lon1 = lon2 -> ((lat2 - lat1) * MicroMetresPerUnit) \div 10000000

distance(lat1, lon1, lat2, lon2) ==
    CASE lon1 = lon2 -> (Abs(lat2 - lat1) * MicroMetresPerUnit) \div 10000000

(***************************************************************************)
(* Node::get (node.rs:79): the rows of the query, and the adjacency built  *)
(* from each row.                                                          *)
(***************************************************************************)
InNodeTable(st, id) == id \in DOMAIN st.nodes

get_positions(nodes, id) == {i \in DOMAIN nodes : nodes[i] = id}

\* planet_osm_nodes n left join planet_osm_ways w on w.nodes @> array[n.id]
\* where n.id = id: one row per way that lists id, in table order.
Rows(st, id) ==
    IF InNodeTable(st, id)
    THEN SelectSeq(st.ways, LAMBDA wy : get_positions(wy.nodes, id) # {})
    ELSE <<>>

\* The left join of a node that is on no way yields one row whose ways
\* columns are NULL; row.get("nodes") panics on it.
NullRow(st, id) == InNodeTable(st, id) /\ Rows(st, id) = <<>>

AdjacentNode(st, id, other, tags) ==
    [node_id  |-> other,
     tags     |-> tags,
     distance |-> distance(st.nodes[id].lat, st.nodes[id].lon,
                           st.nodes[other].lat, st.nodes[other].lon)]

\* node.rs:122: the next node of the way, when there is one.
HasNext(wy, i) == i + 1 \in DOMAIN wy.nodes

\* The one-way test left out.
ReverseIgnoresOneway(tags) == ~ has_tag_value(tags, "oneway:bycicle", "no")

\* node.rs:144-147: the previous node, unless the way is one-way.
ReverseAllowed(tags) ==
    /\ ~ has_tag_value(tags, "oneway", "yes")
    /\ ~ has_tag_value(tags, "oneway:bycicle", "no")

HasPrev(wy, i) == i > 1 /\ ReverseAllowed(wy.tags)

\* The fetch_one of a neighbour fails when it is not in the node table.
PositionFails(st, wy, i) ==
    \/ HasNext(wy, i) /\ ~ InNodeTable(st, wy.nodes[i + 1])
    \/ HasPrev(wy, i) /\ ~ InNodeTable(st, wy.nodes[i - 1])

PositionAdjacent(st, id, wy, i) ==
    (IF HasNext(wy, i)
     THEN <<AdjacentNode(st, id, wy.nodes[i + 1], wy.tags)>> ELSE <<>>)
    \o
    (IF HasPrev(wy, i)
     THEN <<AdjacentNode(st, id, wy.nodes[i - 1], wy.tags)>> ELSE <<>>)

RowFails(st, id, wy) ==
    \E i \in get_positions(wy.nodes, id) : PositionFails(st, wy, i)

RECURSIVE RowAdjacentFrom(_, _, _, _)
RowAdjacentFrom(st, id, wy, i) ==
    IF i > Len(wy.nodes) THEN <<>>
    ELSE (IF wy.nodes[i] = id THEN PositionAdjacent(st, id, wy, i) ELSE <<>>)
         \o RowAdjacentFrom(st, id, wy, i + 1)

\* The adjacent nodes one row adds (node.rs:105-175).
RowAdjacent(st, id, wy) == RowAdjacentFrom(st, id, wy, 1)

RECURSIVE RowsAdjacent(_, _, _)
RowsAdjacent(st, id, rows) ==
    IF rows = <<>> THEN <<>>
    ELSE RowAdjacent(st, id, Head(rows)) \o RowsAdjacent(st, id, Tail(rows))

\* node.rs:198: lat and lon stay 0 when the query returned no row.
NewNode(st, id, hasRow, adjacent_nodes) ==
    [id  |-> id,
     lat |-> IF hasRow THEN st.nodes[id].lat ELSE 0,
     lon |-> IF hasRow THEN st.nodes[id].lon ELSE 0,
     adjacent_nodes |-> adjacent_nodes]

NoNode == [id |-> 0, lat |-> 0, lon |-> 0, adjacent_nodes |-> <<>>]

Ok(node) == [kind |-> "Ok", node |-> node]

Err == [kind |-> "Err", node |-> NoNode]

Panic == [kind |-> "Panic", node |-> NoNode]

\* Node::get run alone on a cold cache: what a call returns.
NodeGet(st, id) ==
    LET rows == Rows(st, id) IN
    IF NullRow(st, id) THEN Panic
    ELSE IF \E k \in DOMAIN rows : RowFails(st, id, rows[k]) THEN Err
    ELSE Ok(NewNode(st, id, rows # <<>>, RowsAdjacent(st, id, rows)))

(***************************************************************************)
(* Node::successors and the two cost functions (node.rs:258-440).  A cost  *)
(* is the distance times the factors that apply, truncated once at the     *)
(* end; the factors are kept in tenths.                                    *)
(***************************************************************************)
\* The shorter list of map.rs:60-63.
ExcludedAsInMap(tags) ==
    \/ has_tag_value(tags, "highway", "motorway")
    \/ has_tag_value(tags, "bicycle", "no")
    \/ has_tag_value(tags, "highway", "steps")
    \/ (~ has_tag(tags, "highway") /\ ~ has_tag(tags, "bicycle"))

\* The list without the test of bicycle=no.
ExcludedButBicycleNo(tags) ==
    \/ has_tag_value(tags, "highway", "motorway")
    \/ has_tag_value(tags, "highway", "motorway_link")
    \/ has_tag_value(tags, "highway", "steps")
    \/ has_tag_value(tags, "highway", "construction")
    \/ has_tag_value(tags, "access", "private")
    \/ has_tag_value(tags, "source", "approximative")
    \/ (~ has_tag(tags, "highway") /\ ~ has_tag(tags, "bicycle"))

Excluded(tags) ==
    \/ has_tag_value(tags, "highway", "motorway")
    \/ has_tag_value(tags, "highway", "motorway_link")
    \/ has_tag_value(tags, "bicycle", "no")
    \/ has_tag_value(tags, "highway", "steps")
    \/ has_tag_value(tags, "highway", "construction")
    \/ has_tag_value(tags, "access", "private")
    \/ has_tag_value(tags, "source", "approximative")
    \/ (~ has_tag(tags, "highway") /\ ~ has_tag(tags, "bicycle"))

CyclewayOrDesignated(tags) ==
    \/ has_tag_value(tags, "highway", "cycleway")
    \/ has_tag_value(tags, "bicycle", "designated")

LaneVariant(tags) ==
    \/ has_tag_value(tags, "bicycle", "yes")
    \/ \E k \in {"cycleway", "cycleway:left", "cycleway:right", "cycleway:both"} :
         \E v \in {"shared_lane", "opposite_lane", "lane", "track"} :
            has_tag_value(tags, k, v)

\* speed.parse::<f32>() of the maxspeed values the stores use; -1 when the
\* value is not a number.
ParseSpeed(v) ==
    CASE v = "30" -> 30
      [] v = "50" -> 50
      [] v = "70" -> 70
      [] OTHER -> -1

OverFifty(tags) == \E p \in tags : p[1] = "maxspeed" /\ ParseSpeed(p[2]) > 50

\* An else-if chain: the factor of the first rule whose condition holds.
RECURSIVE FirstMatch(_)
FirstMatch(rules) ==
    IF rules = <<>> THEN <<>>
    ELSE IF Head(rules)[1] THEN <<Head(rules)[2]>>
    ELSE FirstMatch(Tail(rules))

\* The factors of calculate_cost_safe, in tenths, in the order applied.
SafeClassFactor(tags) ==
    FirstMatch(<<
      <<CyclewayOrDesignated(tags), 7>>,
      <<LaneVariant(tags) \/ has_tag_value(tags, "route", "bicycle"), 8>>,
      <<has_tag_value(tags, "highway", "footway"),
        IF ~ has_tag_value(tags, "bicycle", "no") THEN 11 ELSE 100>>,
      <<has_tag_value(tags, "surface", "gravel"), 12>>,
      <<has_tag_value(tags, "surface", "dirt"), 50>>,
      <<has_tag_value(tags, "bicycle", "dismount"), 30>>,
      <<has_tag_value(tags, "highway", "tertiary"), 20>>,
      <<has_tag_value(tags, "highway", "secondary"), 30>>,
      <<has_tag_value(tags, "highway", "service"), 13>>,
      <<has_tag_value(tags, "highway", "path"), 16>>,
      <<has_tag_value(tags, "access", "customers"), 17>>,
      <<has_tag_value(tags, "highway", "primary"), 40>>,
      <<has_tag_value(tags, "highway", "trunk"), 40>> >>)

SafeFactors(tags) ==
    (IF has_tag_value(tags, "route", "bicycle") THEN <<8>> ELSE <<>>)
    \o SafeClassFactor(tags)
    \o (IF has_tag_value(tags, "route", "ferry") THEN <<1000>> ELSE <<>>)
    \o (IF OverFifty(tags) THEN <<12>> ELSE <<>>)

\* The chain with the factors of dirt and dismount exchanged.
FastClassFactorSwapped(tags) ==
    FirstMatch(<<
      <<CyclewayOrDesignated(tags), 8>>,
      <<LaneVariant(tags), 9>>,
      <<has_tag_value(tags, "highway", "footway"), 11>>,
      <<has_tag_value(tags, "surface", "gravel"), 11>>,
      <<has_tag_value(tags, "surface", "dirt"), 30>>,
      <<has_tag_value(tags, "bicycle", "dismount"), 50>>,
      <<has_tag_value(tags, "highway", "tertiary"), 11>>,
      <<has_tag_value(tags, "highway", "secondary"), 12>>,
      <<has_tag_value(tags, "highway", "service"), 13>>,
      <<has_tag_value(tags, "highway", "path"), 13>>,
      <<has_tag_value(tags, "access", "customers"), 14>>,
      <<has_tag_value(tags, "highway", "primary"), 13>>,
      <<has_tag_value(tags, "highway", "trunk"), 13>> >>)

FastClassFactor(tags) ==
    FirstMatch(<<
      <<CyclewayOrDesignated(tags), 8>>,
      <<LaneVariant(tags), 9>>,
      <<has_tag_value(tags, "highway", "footway"), 11>>,
      <<has_tag_value(tags, "surface", "gravel"), 11>>,
      <<has_tag_value(tags, "surface", "dirt"), 50>>,
      <<has_tag_value(tags, "bicycle", "dismount"), 30>>,
      <<has_tag_value(tags, "highway", "tertiary"), 11>>,
      <<has_tag_value(tags, "highway", "secondary"), 12>>,
      <<has_tag_value(tags, "highway", "service"), 13>>,
      <<has_tag_value(tags, "highway", "path"), 13>>,
      <<has_tag_value(tags, "access", "customers"), 14>>,
      <<has_tag_value(tags, "highway", "primary"), 13>>,
      <<has_tag_value(tags, "highway", "trunk"), 13>> >>)

FastFactors(tags) ==
    (IF has_tag_value(tags, "route", "bicycle") THEN <<8>> ELSE <<>>)
    \o FastClassFactor(tags)
    \o (IF has_tag_value(tags, "route", "ferry") THEN <<1000>> ELSE <<>>)

RECURSIVE Product(_)
Product(fs) == IF fs = <<>> THEN 1 ELSE Head(fs) * Product(Tail(fs))

RECURSIVE Pow10(_)
Pow10(n) == IF n = 0 THEN 1 ELSE 10 * Pow10(n - 1)

\* move_cost as i64: one truncation of distance * f1 * ... * fn.
Truncate(d, fs) == (d * Product(fs)) \div Pow10(Len(fs))

calculate_cost_safe(a_node) == Truncate(a_node.distance, SafeFactors(a_node.tags))

\* calculate_cost_fast measures the distance again, between the two Nodes.
calculate_cost_fast(node, other_node, a_node) ==
    Truncate(distance(node.lat, node.lon, other_node.lat, other_node.lon),
             FastFactors(a_node.tags))

\* Both cost functions start with Node::get of the neighbour; its error is
\* passed on by successors.
SuccessorsFail(st, node) ==
    \E k \in DOMAIN node.adjacent_nodes :
        /\ ~ Excluded(node.adjacent_nodes[k].tags)
        /\ NodeGet(st, node.adjacent_nodes[k].node_id).kind # "Ok"

RECURSIVE SuccessorsOf(_, _, _, _)
SuccessorsOf(st, model, node, adj) ==
    IF adj = <<>> THEN <<>>
    ELSE LET a_node == Head(adj)
             other  == NodeGet(st, a_node.node_id).node
             cost   == IF model = "Fast"
                       THEN calculate_cost_fast(node, other, a_node)
                       ELSE calculate_cost_safe(a_node)
         IN  (IF Excluded(a_node.tags) THEN <<>>
              ELSE <<[node |-> a_node.node_id, move_cost |-> cost]>>)
             \o SuccessorsOf(st, model, node, Tail(adj))

\* node.successors(..): the (neighbour, move cost) pairs, neighbours by id.
successors(st, model, node) == SuccessorsOf(st, model, node, node.adjacent_nodes)

(***************************************************************************)
(* astar (astar.rs:89-190)                                                 *)
(***************************************************************************)
World == Worlds[w]

\* What Node::get and node.successors return for every id of every store.
\* The stores are static, so these are tables.
NodeTable ==
    [wi \in DOMAIN Worlds |-> [id \in Ids |-> NodeGet(Worlds[wi], id)]]

SuccessorsTable ==
    [wi \in DOMAIN Worlds |-> [id \in Ids |->
        LET got == NodeTable[wi][id] IN
        IF got.kind = "Ok" /\ ~ SuccessorsFail(Worlds[wi], got.node)
        THEN Ok(successors(Worlds[wi], Worlds[wi].model, got.node))
        ELSE Err]]

\* The Node of an id, as Node::get returns it: the key of the parents map
\* is determined by its id.
NodeOf(id) == NodeTable[w][id].node

\* usize::max_value(), the parent of the start node: no index of the map.
UsizeMax == 2147483647

\* rayon::ThreadPoolBuilder::new().num_threads(22)
NumThreads == 22

\* Nothing received yet; no earlier call.
NoResult == [path |-> <<>>, cost |-> -1]

NoCost == NoResult.cost

SmallestCostHolder(estimated_cost, cost, index) ==
    [estimated_cost |-> estimated_cost, cost |-> cost, index |-> index]

\* The order with ties won by the lower cost.
GreaterLowCost(a, b) ==
    \/ a.estimated_cost < b.estimated_cost
    \/ a.estimated_cost = b.estimated_cost /\ a.cost < b.cost

\* Ord for SmallestCostHolder (astar.rs:212): a is Greater than b.
Greater(a, b) ==
    \/ a.estimated_cost < b.estimated_cost
    \/ a.estimated_cost = b.estimated_cost /\ a.cost > b.cost

\* BinaryHeap::pop returns a greatest element.
Pop(heap) == {e \in heap : \A o \in heap : ~ Greater(o, e)}

\* parents.get_index(i), indices from 0.
ValidIndex(map, i) == i >= 0 /\ i < Len(map)

get_index(map, i) == map[i + 1]

\* The index of a key of the map, -1 when the entry is vacant.
IndexOfKey(map, node) ==
    IF \E i \in DOMAIN map : map[i].node = node
    THEN (CHOOSE i \in DOMAIN map : map[i].node = node) - 1
    ELSE -1

\* reverse_path (astar.rs:222): follow the parents from start until
\* get_index finds nothing, then reverse.  fuel bounds the walk of a map
\* whose links would loop.
RECURSIVE Walk(_, _, _)
Walk(map, i, fuel) ==
    IF ~ ValidIndex(map, i) \/ fuel = 0 THEN <<>>
    ELSE Walk(map, get_index(map, i).parent, fuel - 1)
         \o <<get_index(map, i).node>>

reverse_path(map, start) == Walk(map, start, Len(map) + 1)

\* node.lat == end.lat && node.lon == end.lon (astar.rs:140)
IsGoal(node, end) == node.lat = end.lat /\ node.lon = end.lon

\* A task that keeps the index of the popped entry but not its cost.
TaskWithoutCost(cost, index) ==
    [pc |-> "spawned", cost |-> 0, index |-> index, path |-> <<>>,
     successors |-> <<>>, new_cost |-> 0, h |-> 0, n |-> 0]

Task(cost, index) ==
    [pc |-> "spawned", cost |-> cost, index |-> index, path |-> <<>>,
     successors |-> <<>>, new_cost |-> 0, h |-> 0, n |-> 0]

Key(t) == <<t.cost, t.index>>

Running == {t \in workers : t.pc # "spawned"}

Replace(t, u) == (workers \ {t}) \cup {u}

\* Node::route (node.rs:450): what the request ended with.  Nothing yet,
\* Ok((path, cost)), the panic of expect, or the abort of the process.
NoRoute == [kind |-> "none", path |-> <<>>, cost |-> NoCost]

RouteOk(path, cost) == [kind |-> "Ok", path |-> path, cost |-> cost]

RoutePanic == [kind |-> "Panic", path |-> <<>>, cost |-> NoCost]

ProcessAbort == [kind |-> "Abort", path |-> <<>>, cost |-> NoCost]

\* now.elapsed().as_secs() > 60 (node.rs:464).  now is taken before the two
\* Node::closest lookups, so the limit may have passed when astar starts.
DeadlinePassed == deadline # "ahead"

Init ==
    /\ w \in SearchWorlds
    /\ to_see = {SmallestCostHolder(0, 0, 0)}
    /\ parents = <<[node |-> World.start, parent |-> UsizeMax, cost |-> 0]>>
    /\ done = FALSE
    /\ parents_lock = <<>>
    /\ to_see_lock = <<>>
    /\ rx_to_see_push = 0
    /\ rx_success = <<>>
    /\ dispatcher = "pop"
    /\ workers = {}
    /\ main = "recv"
    /\ r = NoResult
    /\ prev_cost = NoCost
    /\ cache = [id \in Ids |-> NoNode]
    /\ callers = <<>>
    /\ deadline \in {"ahead", "passed_at_start"}
    /\ route = NoRoute

\* astar.rs:115-132: pop under the to_see lock; spawn a task for the entry,
\* or wait for a push when the heap is empty.
DispatcherPop ==
    /\ dispatcher = "pop"
    /\ to_see_lock = <<>>
    /\ IF to_see = {}
       THEN /\ dispatcher' = "recv"
            /\ UNCHANGED <<to_see, workers>>
       ELSE \E e \in Pop(to_see) :
                /\ to_see' = to_see \ {e}
                /\ workers' = workers \cup {Task(e.cost, e.index)}
                /\ UNCHANGED dispatcher
    /\ UNCHANGED <<w, parents, done, parents_lock, to_see_lock, rx_to_see_push, rx_success,
                   main, r, prev_cost, cache, callers,
                   deadline, route>>

\* A dispatcher that one message does not wake: it takes two at a time.
DispatcherRecvTwo ==
    /\ dispatcher = "recv"
    /\ rx_to_see_push > 1
    /\ rx_to_see_push' = rx_to_see_push - 2
    /\ dispatcher' = "pop"
    /\ UNCHANGED <<w, to_see, parents, done, parents_lock, to_see_lock,
                   rx_success, workers, main, r, prev_cost, cache, callers,
                   deadline, route>>

\* astar.rs:120: rx_to_see_push.recv()
DispatcherRecv ==
    /\ dispatcher = "recv"
    /\ rx_to_see_push > 0
    /\ rx_to_see_push' = rx_to_see_push - 1
    /\ dispatcher' = "pop"
    /\ UNCHANGED <<w, to_see, parents, done, parents_lock, to_see_lock, rx_success,
                   workers, main, r, prev_cost, cache, callers,
                   deadline, route>>

\* std::mem::forget in the place of drop: the mutex stays locked.
forget(guard) == guard

\* drop(guard) (astar.rs:119, 124, 146) and the end of the scope of a guard
\* (astar.rs:144, 183): the owner of the mutex afterwards.
drop(guard) == <<>>

\* astar.rs:133: a pool thread takes the task and loads done.
WorkerStart(t) ==
    /\ t.pc = "spawned"
    /\ Cardinality(Running) < NumThreads - 1
    /\ workers' = IF done THEN workers \ {t}
                  ELSE Replace(t, [t EXCEPT !.pc = "examine"])
    /\ UNCHANGED <<w, to_see, parents, done, parents_lock, to_see_lock, rx_to_see_push,
                   rx_success, dispatcher, main, r, prev_cost, cache, callers,
                   deadline, route>>

\* astar.rs:137-153: under the parents lock, copy the map; at the goal build
\* the path and keep the lock; otherwise release it and drop a stale entry.
WorkerExamine(t) ==
    /\ t.pc = "examine"
    /\ parents_lock = <<>>
    /\ LET node == NodeOf(get_index(parents, t.index).node)
           c    == get_index(parents, t.index).cost
       IN  IF IsGoal(node, NodeOf(World.end))
           THEN /\ workers' = Replace(t, [t EXCEPT !.pc = "store_done",
                                 !.path = reverse_path(parents, t.index)])
                /\ parents_lock' = Key(t)
           ELSE /\ workers' = IF t.cost > c THEN workers \ {t}
                              ELSE Replace(t, [t EXCEPT !.pc = "fetch"])
                /\ parents_lock' = drop(Key(t))
    /\ UNCHANGED <<w, to_see, parents, done, to_see_lock, rx_to_see_push,
                   rx_success,
                   dispatcher, main, r, prev_cost, cache, callers,
                   deadline, route>>

\* astar.rs:142
WorkerStoreDone(t) ==
    /\ t.pc = "store_done"
    /\ done' = TRUE
    /\ workers' = Replace(t, [t EXCEPT !.pc = "send"])
    /\ UNCHANGED <<w, to_see, parents, parents_lock, to_see_lock, rx_to_see_push,
                   rx_success, dispatcher, main, r, prev_cost, cache, callers,
                   deadline, route>>

\* astar.rs:143-144: send the path with the popped cost (an error of send,
\* after the receiver is gone, is ignored), return and release the lock.
WorkerSend(t) ==
    /\ t.pc = "send"
    /\ rx_success' = IF main = "returned" THEN rx_success
                     ELSE Append(rx_success, [path |-> t.path, cost |-> t.cost])
    /\ parents_lock' = drop(Key(t))
    /\ workers' = workers \ {t}
    /\ UNCHANGED <<w, to_see, parents, done, to_see_lock, rx_to_see_push,
                   dispatcher,
                   main, r, prev_cost, cache, callers,
                   deadline, route>>

\* astar.rs:154: node.successors(state), with no lock held.
WorkerFetch(t) ==
    /\ t.pc = "fetch"
    /\ LET got == SuccessorsTable[w][get_index(parents, t.index).node]
       IN  /\ got.kind = "Ok"
           /\ workers' = IF got.node = <<>> THEN workers \ {t}
                         ELSE Replace(t, [t EXCEPT !.pc = "update",
                                                   !.successors = got.node])
    /\ UNCHANGED <<w, to_see, parents, done, parents_lock, to_see_lock, rx_to_see_push,
                   rx_success, dispatcher, main, r, prev_cost, cache, callers,
                   deadline, route>>

\* astar.rs:154: unwrap of an Err panics in the task.  The pool is built
\* without a panic_handler (astar.rs:106-109), so rayon aborts the process:
\* every thread of it ends, the calling thread too.
WorkerPanic(t) ==
    /\ t.pc = "fetch"
    /\ SuccessorsTable[w][get_index(parents, t.index).node].kind # "Ok"
    /\ workers' = {}
    /\ dispatcher' = "aborted"
    /\ main' = "aborted"
    /\ route' = ProcessAbort
    /\ UNCHANGED <<w, to_see, parents, done, parents_lock, to_see_lock, rx_to_see_push,
                   rx_success, r, prev_cost, cache, callers, deadline>>

\* The worker after one successor: the next one, or the end of the task.
Advance(t, pc) ==
    IF Tail(t.successors) = <<>> /\ pc = "update" THEN workers \ {t}
    ELSE Replace(t, [t EXCEPT !.pc = pc, !.successors = Tail(t.successors),
                              !.new_cost = 0, !.h = 0, !.n = 0])

\* The heuristic of an entry that is improved (astar.rs:168): the distance
\* from the successor to the key of the entry.
OccupiedH(successor, key) ==
    distance(successor.lat, successor.lon, key.lat, key.lon)

\* The heuristic of a new entry (astar.rs:162).
VacantH(successor, end) ==
    distance(successor.lat, successor.lon, end.lat, end.lon)

\* The test turned round: a record is replaced by a worse candidate.
ImprovesReversed(old_cost, new_cost) == old_cost < new_cost

\* No test: every candidate replaces the record.
ImprovesAlways(old_cost, new_cost) == TRUE

\* The test with >= in the place of >.
ImprovesOrEqual(old_cost, new_cost) == old_cost >= new_cost

\* astar.rs:167
Improves(old_cost, new_cost) == old_cost > new_cost

\* A guard bound to a name of the loop body: the mutex stays locked after
\* the match.
KeepTemporary(guard) == guard

\* The guard of parents.lock() in the scrutinee of the match (astar.rs:160)
\* is a temporary, dropped at the end of the match (astar.rs:175): the
\* owner of the mutex afterwards.
DropTemporary(guard) == <<>>

\* astar.rs:156-175: one successor, under the parents lock.
WorkerUpdate(t) ==
    /\ t.pc = "update"
    /\ parents_lock = <<>>
    /\ parents_lock' = DropTemporary(Key(t))
    /\ LET successor == Head(t.successors).node
           new_cost  == t.cost + Head(t.successors).move_cost
           i         == IndexOfKey(parents, successor)
       IN  IF i = -1
           THEN /\ parents' = Append(parents, [node |-> successor,
                                  parent |-> t.index, cost |-> new_cost])
                /\ workers' = Replace(t, [t EXCEPT !.pc = "push",
                        !.new_cost = new_cost, !.n = Len(parents),
                        !.h = VacantH(NodeOf(successor), NodeOf(World.end))])
           ELSE IF Improves(get_index(parents, i).cost, new_cost)
           THEN /\ parents' = [parents EXCEPT ![i + 1] =
                                  [node |-> successor, parent |-> t.index,
                                   cost |-> new_cost]]
                /\ workers' = Replace(t, [t EXCEPT !.pc = "push",
                        !.new_cost = new_cost, !.n = i,
                        !.h = OccupiedH(NodeOf(successor),
                                        NodeOf(get_index(parents, i).node))])
           ELSE /\ workers' = Advance(t, "update")
                /\ UNCHANGED parents
    /\ UNCHANGED <<w, to_see, done, to_see_lock, rx_to_see_push, rx_success,
                   dispatcher, main, r, prev_cost, cache, callers,
                   deadline, route>>

\* A send that is dropped: the dispatcher is not told of the push.
SendLost(channel) == channel

\* tx_to_see_push.send(true) (astar.rs:182)
Send(channel) == channel + 1

\* astar.rs:176-181: lock to_see and push the entry.
WorkerPush(t) ==
    /\ t.pc = "push"
    /\ to_see_lock = <<>>
    /\ to_see' = to_see \cup
                 {SmallestCostHolder(t.new_cost + t.h, t.new_cost, t.n)}
    /\ to_see_lock' = Key(t)
    /\ workers' = Replace(t, [t EXCEPT !.pc = "notify"])
    /\ UNCHANGED <<w, parents, done, parents_lock, rx_to_see_push,
                   rx_success, dispatcher, main, r, prev_cost, cache, callers,
                   deadline, route>>

\* astar.rs:182-183: tell the dispatcher of the push; the guard of to_see
\* goes out of scope at the end of the iteration.
WorkerNotify(t) ==
    /\ t.pc = "notify"
    /\ rx_to_see_push' = Send(rx_to_see_push)
    /\ to_see_lock' = drop(Key(t))
    /\ workers' = IF Tail(t.successors) = <<>> THEN workers \ {t}
                  ELSE Advance(t, "update")
    /\ UNCHANGED <<w, to_see, parents, done, parents_lock, rx_success,
                   dispatcher, main, r, prev_cost, cache, callers,
                   deadline, route>>

\* A caller that goes on receiving after its first result.
MainRecvLoop ==
    /\ main \in {"recv", "returned"}
    /\ rx_success # <<>>
    /\ r' = Head(rx_success)
    /\ rx_success' = Tail(rx_success)
    /\ main' = "returned"
    /\ UNCHANGED <<w, to_see, parents, done, parents_lock, to_see_lock,
                   rx_to_see_push, dispatcher, workers, prev_cost, cache,
                   callers, deadline, route>>

\* astar.rs:187-189: the caller receives the first result and returns it.
MainRecv ==
    /\ main = "recv"
    /\ rx_success # <<>>
    /\ r' = Head(rx_success)
    /\ rx_success' = <<>>
    /\ main' = "returned"
    /\ UNCHANGED <<w, to_see, parents, done, parents_lock, to_see_lock, rx_to_see_push,
                   dispatcher, workers, prev_cost, cache, callers,
                   deadline, route>>

\* node.rs:470-472: expect panics on None; Some((path, cost)) is returned
\* as Ok((path, cost)).
RouteReturn ==
    /\ main = "returned"
    /\ route = NoRoute
    /\ route' = IF r = NoResult THEN RoutePanic ELSE RouteOk(r.path, r.cost)
    /\ UNCHANGED <<w, to_see, parents, done, parents_lock, to_see_lock, rx_to_see_push,
                   rx_success, dispatcher, workers, main, r, prev_cost,
                   cache, callers, deadline>>

\* The wall clock passes the time limit of the request.
Tick ==
    /\ deadline = "ahead"
    /\ deadline' = "passed"
    /\ UNCHANGED <<w, to_see, parents, done, parents_lock, to_see_lock, rx_to_see_push,
                   rx_success, dispatcher, workers, main, r, prev_cost,
                   cache, callers, route>>

\* The caller calls astar again with the same start and end: a new heap,
\* map, flag, channels and pool (astar.rs:95-112).
SearchAgain ==
    /\ main = "returned"
    /\ prev_cost' = r.cost
    /\ to_see' = {SmallestCostHolder(0, 0, 0)}
    /\ parents' = <<[node |-> World.start, parent |-> UsizeMax, cost |-> 0]>>
    /\ done' = FALSE
    /\ parents_lock' = <<>>
    /\ to_see_lock' = <<>>
    /\ rx_to_see_push' = 0
    /\ rx_success' = <<>>
    /\ dispatcher' = "pop"
    /\ workers' = {}
    /\ main' = "recv"
    /\ r' = NoResult
    /\ route' = NoRoute
    /\ UNCHANGED <<w, cache, callers, deadline>>

Worker ==
    \E t \in workers :
        \/ WorkerStart(t)
        \/ WorkerExamine(t)
        \/ WorkerStoreDone(t)
        \/ WorkerSend(t)
        \/ WorkerFetch(t)
        \/ WorkerPanic(t)
        \/ WorkerUpdate(t)
        \/ WorkerPush(t)
        \/ WorkerNotify(t)

Next ==
    \/ DispatcherPop
    \/ DispatcherRecv
    \/ Worker
    \/ MainRecv
    \/ RouteReturn
    \/ Tick
    \/ SearchAgain

Spec == Init /\ [][Next]_vars

\* The scheduling the pool and the operating system give: the dispatcher,
\* every spawned task and the calling thread keep running.
FairSpec ==
    /\ Spec
    /\ WF_vars(DispatcherPop \/ DispatcherRecv)
    /\ WF_vars(Worker)
    /\ WF_vars(MainRecv)

(***************************************************************************)
(* The graph the search runs on, for stating the claims                    *)
(***************************************************************************)
Last(seq) == seq[Len(seq)]

Range(seq) == {seq[i] : i \in DOMAIN seq}

\* The moves out of a node in store wi.
Moves(wi, id) ==
    IF SuccessorsTable[wi][id].kind = "Ok"
    THEN Range(SuccessorsTable[wi][id].node) ELSE {}

EdgeCosts(wi, a, b) == {m.move_cost : m \in {x \in Moves(wi, a) : x.node = b}}

\* The sums of move costs along a node sequence (one per choice of edges).
RECURSIVE PathSumsIn(_, _)
PathSumsIn(wi, path) ==
    IF Len(path) <= 1 THEN {0}
    ELSE {c + s : c \in EdgeCosts(wi, path[1], path[2]),
                  s \in PathSumsIn(wi, Tail(path))}

\* The simple paths that extend path and end at the node to.
RECURSIVE Extend(_, _, _)
Extend(wi, path, to) ==
    IF Last(path) = to THEN {path}
    ELSE UNION {Extend(wi, Append(path, m.node), to) :
                  m \in {x \in Moves(wi, Last(path)) : x.node \notin Range(path)}}

Min(S) == CHOOSE x \in S : \A y \in S : x <= y

Reaches(wi, from, to) == Extend(wi, <<from>>, to) # {}

\* The least total move cost from a node to another that it reaches.
LeastCost(wi, from, to) ==
    Min(UNION {PathSumsIn(wi, p) : p \in Extend(wi, <<from>>, to)})

\* The heuristic of a node: its distance to the end node.
Heuristic(wi, id) ==
    VacantH(NodeTable[wi][id].node, NodeTable[wi][Worlds[wi].end].node)

GraphTable ==
    [wi \in SearchWorlds |->
        LET W == Worlds[wi] IN
        [reachable  |-> Reaches(wi, W.start, W.end),
         min_cost   |-> IF Reaches(wi, W.start, W.end)
                        THEN LeastCost(wi, W.start, W.end) ELSE NoCost,
         accessor   |-> \A id \in DOMAIN W.nodes :
                            SuccessorsTable[wi][id].kind = "Ok",
         admissible |-> \A id \in DOMAIN W.nodes :
                            Reaches(wi, id, W.end) =>
                                Heuristic(wi, id) <= LeastCost(wi, id, W.end)]]

PathSums(path) == PathSumsIn(w, path)

GoalReachable == GraphTable[w].reachable

MinCost == GraphTable[w].min_cost

AccessorNeverFails == GraphTable[w].accessor

\* The heuristic never exceeds the real cost to the end node.
HeuristicAdmissible == GraphTable[w].admissible

ReachedGoal == main = "returned" /\ r.path # <<>> /\ Last(r.path) = World.end

(***************************************************************************)
(* C1: every result of the search is a node sequence that starts with the  *)
(* start node and ends with the requested end node itself.                 *)
(***************************************************************************)
C1_PathFromStartToEnd ==
    main = "returned" =>
        /\ r.path # <<>>
        /\ Head(r.path) = World.start
        /\ Last(r.path) = World.end

(***************************************************************************)
(* C2: the cost returned by a search that reached the goal is the sum of   *)
(* the move costs of the edges between consecutive nodes of its path.      *)
(***************************************************************************)
C2_CostIsSumOfMoves == ReachedGoal => r.cost \in PathSums(r.path)

(***************************************************************************)
(* C3: when the goal cannot be reached, the search ends once the heap is   *)
(* empty and no task is left: the caller has its answer, or some thread    *)
(* can still take a step towards it.                                       *)
(***************************************************************************)
C3_NoPathTerminates ==
    (~ GoalReachable /\ AccessorNeverFails /\ to_see = {} /\ workers = {}) =>
        (main = "returned" \/ ENABLED Next)

(***************************************************************************)
(* C4: when the goal can be reached and the accessor never fails, a fairly *)
(* scheduled search eventually returns Some((path, cost)) to the caller.   *)
(***************************************************************************)
C4_EventuallyReturns ==
    (GoalReachable /\ AccessorNeverFails /\ main = "recv")
        ~> (main = "returned" /\ r # NoResult)

C4_Witness ==
    GoalReachable /\ AccessorNeverFails /\ main = "returned" /\ r # NoResult

(***************************************************************************)
(* C5: with an admissible heuristic the cost returned by a search that     *)
(* reached the goal is the least total cost of a path from start to goal,  *)
(* whatever the interleaving of the tasks.                                 *)
(***************************************************************************)
C5_CostIsMinimal ==
    (ReachedGoal /\ HeuristicAdmissible) =>
        r.cost = MinCost

(***************************************************************************)
(* C6: a second search with the same start, end and profile over the same  *)
(* store returns the cost the first one returned.                          *)
(***************************************************************************)
C6_SameCostAgain ==
    (main = "returned" /\ prev_cost # NoCost) => r.cost = prev_cost

(***************************************************************************)
(* Node::get called concurrently (node.rs:79-206).  A caller suspends at   *)
(* every await: before the cache read, at the query, at the neighbour      *)
(* lookups of each row and before the cache write.                         *)
(***************************************************************************)
NumCallers == 2

Idle ==
    [pc |-> "idle", id |-> 0, rows |-> <<>>, has_row |-> FALSE,
     adjacent_nodes |-> <<>>, queried |-> FALSE, ret |-> Err,
     cached |-> NoNode]

CacheInit ==
    /\ w \in StoreWorlds
    /\ cache = [id \in Ids |-> NoNode]
    /\ callers = [c \in 1 .. NumCallers |-> Idle]
    /\ to_see = {}
    /\ parents = <<>>
    /\ done = FALSE
    /\ parents_lock = <<>>
    /\ to_see_lock = <<>>
    /\ rx_to_see_push = 0
    /\ rx_success = <<>>
    /\ dispatcher = "pop"
    /\ workers = {}
    /\ main = "recv"
    /\ r = NoResult
    /\ prev_cost = NoCost
    /\ deadline = "ahead"
    /\ route = NoRoute

\* A lookup that never finds the id.
AlwaysMiss(map, id) == FALSE

\* NODE_CACHE.read().await.get(&id) is Some (node.rs:84)
Hit(map, id) == map[id] # NoNode

\* The write happens although rows are left to process.
InsertEarly(rows) == TRUE

\* The for loop over the rows has ended (node.rs:105, 175).
RowsDone(rows) == rows = <<>>

\* Node::get(pg_client, id) is called; cached remembers what the cache held.
Call(c, id) ==
    /\ callers[c].pc = "idle"
    /\ callers' = [callers EXCEPT ![c] =
                      [Idle EXCEPT !.pc = "read", !.id = id,
                                   !.cached = cache[id]]]
    /\ UNCHANGED <<w, cache>>
    /\ UNCHANGED astarVars

\* node.rs:84-86: a hit returns the clone of the cached Node.
CacheRead(c) ==
    /\ callers[c].pc = "read"
    /\ LET cl == callers[c] IN
       callers' = [callers EXCEPT ![c] =
                      IF Hit(cache, cl.id)
                      THEN [cl EXCEPT !.pc = "done", !.ret = Ok(cache[cl.id])]
                      ELSE [cl EXCEPT !.pc = "query"]]
    /\ UNCHANGED <<w, cache>>
    /\ UNCHANGED astarVars

\* node.rs:89-101: the query for the node and its ways.
Query(c) ==
    /\ callers[c].pc = "query"
    /\ LET cl == callers[c] IN
       callers' = [callers EXCEPT ![c] =
                      IF NullRow(World, cl.id)
                      THEN [cl EXCEPT !.pc = "done", !.queried = TRUE,
                                      !.ret = Panic]
                      ELSE [cl EXCEPT !.pc = "rows", !.queried = TRUE,
                                      !.rows = Rows(World, cl.id),
                                      !.has_row = Rows(World, cl.id) # <<>>]]
    /\ UNCHANGED <<w, cache>>
    /\ UNCHANGED astarVars

\* node.rs:105-175: one row; a neighbour that is not found ends the call.
Row(c) ==
    /\ callers[c].pc = "rows"
    /\ callers[c].rows # <<>>
    /\ LET cl == callers[c] IN
       callers' = [callers EXCEPT ![c] =
                      IF RowFails(World, cl.id, Head(cl.rows))
                      THEN [cl EXCEPT !.pc = "done", !.ret = Err,
                                      !.rows = <<>>, !.adjacent_nodes = <<>>,
                                      !.has_row = FALSE]
                      ELSE [cl EXCEPT !.rows = Tail(cl.rows),
                                      !.adjacent_nodes = cl.adjacent_nodes \o
                                          RowAdjacent(World, cl.id, Head(cl.rows))]]
    /\ UNCHANGED <<w, cache>>
    /\ UNCHANGED astarVars

\* node.rs:198-205: build the Node, write it to the cache, return it.
Insert(c) ==
    /\ callers[c].pc = "rows"
    /\ RowsDone(callers[c].rows)
    /\ LET node == NewNode(World, callers[c].id, callers[c].has_row,
                           callers[c].adjacent_nodes)
       IN  /\ cache' = [cache EXCEPT ![callers[c].id] = node]
           /\ callers' = [callers EXCEPT ![c] =
                            [@ EXCEPT !.pc = "done", !.ret = Ok(node),
                                      !.rows = <<>>, !.adjacent_nodes = <<>>,
                                      !.has_row = FALSE]]
    /\ UNCHANGED w
    /\ UNCHANGED astarVars

\* The caller takes the result and is free to call again.
Return(c) ==
    /\ callers[c].pc = "done"
    /\ callers' = [callers EXCEPT ![c] = Idle]
    /\ UNCHANGED <<w, cache>>
    /\ UNCHANGED astarVars

CacheNext ==
    \E c \in 1 .. NumCallers :
        \/ \E id \in Ids : Call(c, id)
        \/ CacheRead(c)
        \/ Query(c)
        \/ Row(c)
        \/ Insert(c)
        \/ Return(c)

CacheSpec == CacheInit /\ [][CacheNext]_vars

(***************************************************************************)
(* Map::successors (map.rs:42-66): the ids of the neighbours it returns.   *)
(***************************************************************************)
MapExcluded(tags) ==
    \/ has_tag_value(tags, "highway", "motorway")
    \/ has_tag_value(tags, "bicycle", "no")
    \/ has_tag_value(tags, "highway", "steps")
    \/ (~ has_tag(tags, "highway") /\ ~ has_tag(tags, "bicycle"))

\* map.rs:53-55: the opposite direction of a one-way.
MapWrongWay(tags, i, node_index) ==
    /\ ~ has_tag_value(tags, "oneway:bicycle", "no")
    /\ has_tag_value(tags, "oneway", "yes")
    /\ i - node_index # 1

MapSuccessorIds(st, id) ==
    UNION { LET wy == st.ways[k]
                node_index == Min(get_positions(wy.nodes, id))
            IN  {wy.nodes[i] : i \in {j \in DOMAIN wy.nodes :
                                        /\ Abs(j - node_index) = 1
                                        /\ ~ MapWrongWay(wy.tags, j, node_index)
                                        /\ ~ MapExcluded(wy.tags)}}
          : k \in {j \in DOMAIN st.ways : get_positions(st.ways[j].nodes, id) # {}} }

(***************************************************************************)
(* For stating the claims about the accessor                               *)
(***************************************************************************)
Done(c) == callers[c].pc = "done"

\* The tags of the ways that list a immediately before b.
WaysFromTo(st, a, b) ==
    {st.ways[k].tags : k \in {j \in DOMAIN st.ways :
        \E i \in DOMAIN st.ways[j].nodes :
            /\ i + 1 \in DOMAIN st.ways[j].nodes
            /\ st.ways[j].nodes[i] = a
            /\ st.ways[j].nodes[i + 1] = b}}

OneWayNoReverse(tags) ==
    /\ has_tag_value(tags, "oneway", "yes")
    /\ ~ has_tag_value(tags, "oneway:bicycle", "no")

\* a -> b is a one-way edge: some way lists a right before b, every such way
\* is a one-way without reverse permission, and no way lists b before a.
OneWayEdge(st, a, b) ==
    /\ a # b
    /\ WaysFromTo(st, a, b) # {}
    /\ \A tags \in WaysFromTo(st, a, b) : OneWayNoReverse(tags)
    /\ WaysFromTo(st, b, a) = {}

\* The one-way edges of every store.
OneWayEdges ==
    [wi \in DOMAIN Worlds |->
        {e \in (DOMAIN Worlds[wi].nodes) \X (DOMAIN Worlds[wi].nodes) :
            OneWayEdge(Worlds[wi], e[1], e[2])}]

AdjacentIds(node) ==
    {node.adjacent_nodes[k].node_id : k \in DOMAIN node.adjacent_nodes}

\* expand(node): the neighbours Node::successors returns for a Node.
ExpandIds(st, model, node) ==
    {m.node : m \in Range(successors(st, model, node))}

(***************************************************************************)
(* C7: get_node of an id that is not in the store fails with NotFound: it  *)
(* returns no Node and puts nothing into the cache for that id.            *)
(***************************************************************************)
C7_AbsentIdIsNotFound ==
    \A c \in DOMAIN callers :
        (Done(c) /\ ~ InNodeTable(World, callers[c].id)) =>
            /\ callers[c].ret.kind = "Err"
            /\ cache[callers[c].id] = NoNode

(***************************************************************************)
(* C8: a get_node of an id that was in the cache when it was called        *)
(* returns the cached Node as it was and sends no query to the store.      *)
(***************************************************************************)
C8_HitReturnsCached ==
    \A c \in DOMAIN callers :
        (Done(c) /\ callers[c].cached # NoNode) =>
            /\ callers[c].ret = Ok(callers[c].cached)
            /\ ~ callers[c].queried

C8_Witness ==
    \E c \in DOMAIN callers :
        /\ Done(c)
        /\ callers[c].cached # NoNode
        /\ InNodeTable(World, callers[c].id)

(***************************************************************************)
(* C9: two get_node calls that both miss the cache for the same id return  *)
(* Nodes equal in all fields, each having fetched and inserted, and the    *)
(* cache only ever holds completely built Nodes.                           *)
(***************************************************************************)
C9_ConcurrentGetsAgree ==
    /\ \A c1, c2 \in DOMAIN callers :
          (/\ Done(c1) /\ Done(c2)
           /\ callers[c1].id = callers[c2].id
           /\ callers[c1].ret.kind = "Ok" /\ callers[c2].ret.kind = "Ok") =>
              callers[c1].ret.node = callers[c2].ret.node
    /\ \A id \in Ids :
          cache[id] # NoNode => Ok(cache[id]) = NodeTable[w][id]

C9_Witness ==
    \E c1, c2 \in DOMAIN callers :
        /\ c1 # c2
        /\ Done(c1) /\ Done(c2)
        /\ callers[c1].id = callers[c2].id
        /\ callers[c1].queried /\ callers[c2].queried
        /\ callers[c1].ret.kind = "Ok" /\ callers[c2].ret.kind = "Ok"
        /\ Len(callers[c1].ret.node.adjacent_nodes) > 1

(***************************************************************************)
(* C10: for a one-way edge A -> B without reverse permission, the Node of  *)
(* B does not list A and expand(B) does not return A, while expand(A)      *)
(* returns B unless the tags of the edge exclude it.                       *)
(***************************************************************************)
C10_OneWay ==
    \A c \in DOMAIN callers :
        (Done(c) /\ callers[c].ret.kind = "Ok") =>
            LET node == callers[c].ret.node IN
            \A e \in OneWayEdges[w] :
                /\ e[2] = node.id =>
                      /\ e[1] \notin AdjacentIds(node)
                      /\ e[1] \notin ExpandIds(World, World.model, node)
                      /\ e[1] \notin MapSuccessorIds(World, node.id)
                /\ (/\ e[1] = node.id
                    /\ ~ SuccessorsFail(World, node)
                    /\ \E tags \in WaysFromTo(World, e[1], e[2]) :
                          ~ Excluded(tags)) =>
                      /\ e[2] \in ExpandIds(World, World.model, node)
                      /\ e[2] \in MapSuccessorIds(World, node.id)

C10_Witness ==
    \E c \in DOMAIN callers :
        /\ Done(c)
        /\ callers[c].ret.kind = "Ok"
        /\ \E e, f \in OneWayEdges[w] :
              /\ e[2] = callers[c].id
              /\ f[1] = callers[c].id
              /\ f[2] \in ExpandIds(World, World.model, callers[c].ret.node)

(***************************************************************************)
(* For stating the claims about expand: the step in which a task gets the  *)
(* successors of its node (astar.rs:154), and what it got.                 *)
(***************************************************************************)
\* The Node a task is about.
NodeOfTask(t) == NodeOf(get_index(parents, t.index).node)

\* Task t calls node.successors in this step and gets a list back.
Expands(t) == WorkerFetch(t)

\* The (neighbour, move cost) list the step gave task t: a task that got an
\* empty list has ended.
Fetched(t) ==
    IF \E u \in workers' : Key(u) = Key(t) /\ u.pc = "update"
    THEN (CHOOSE u \in workers' : Key(u) = Key(t) /\ u.pc = "update").successors
    ELSE <<>>

\* A task that holds the whole list it got from node.successors.
JustExpanded(t) ==
    /\ t.pc = "update"
    /\ SuccessorsTable[w][get_index(parents, t.index).node] = Ok(t.successors)

\* The tag sets the specification excludes.
Forbidden(tags) ==
    \/ <<"highway", "motorway">> \in tags
    \/ <<"highway", "motorway_link">> \in tags
    \/ <<"bicycle", "no">> \in tags
    \/ <<"highway", "steps">> \in tags
    \/ <<"highway", "construction">> \in tags
    \/ <<"access", "private">> \in tags
    \/ <<"source", "approximative">> \in tags
    \/ ~ \E p \in tags : p[1] \in {"highway", "bicycle"}

\* The neighbours over the adjacent edges that are not forbidden, in order.
AllowedNeighbours(node) ==
    LET kept == SelectSeq(node.adjacent_nodes, LAMBDA a : ~ Forbidden(a.tags))
    IN  [k \in DOMAIN kept |-> kept[k].node_id]

C12_CostsNonNegative ==
    /\ \A t \in workers :
          /\ \A k \in DOMAIN t.successors : t.successors[k].move_cost >= 0
          /\ t.cost >= 0
          /\ t.new_cost >= 0
    /\ \A i \in DOMAIN parents : parents[i].cost >= 0
    /\ \A e \in to_see : e.cost >= 0 /\ e.estimated_cost >= 0

\* Costs above 0 in the map and in the heap while a task holds a fresh list.
C12_Witness ==
    /\ \E i \in DOMAIN parents : parents[i].cost > 0
    /\ \E e \in to_see : e.cost > 0
    /\ \E t \in workers :
          /\ JustExpanded(t)
          /\ \E k \in DOMAIN t.successors : t.successors[k].move_cost > 0

(***************************************************************************)
(* C13: a task that examines its candidate once the time limit has passed  *)
(* takes it for the goal, with the path from the start to that candidate;  *)
(* when the limit has passed before the search starts, the path returned   *)
(* holds the start node alone.                                             *)
(***************************************************************************)
C13_DeadlineForcesSuccess ==
    [][/\ \A t \in workers :
             (WorkerExamine(t) /\ DeadlinePassed) =>
                 \E u \in workers' :
                     /\ Key(u) = Key(t)
                     /\ u.pc = "store_done"
                     /\ u.path = reverse_path(parents, t.index)
       /\ (main' = "returned" /\ deadline' = "passed_at_start") =>
             r'.path = <<World.start>>]_vars

(***************************************************************************)
(* C14: a request whose time limit had passed before the search examined   *)
(* anything ends with DeadlineExceeded, not with the Ok((path, cost)) of a *)
(* route that reached the goal.                                            *)
(***************************************************************************)
C14_DeadlineResultIsFlagged ==
    (deadline = "passed_at_start" /\ route # NoRoute /\ route # ProcessAbort) =>
        route.kind = "DeadlineExceeded"

(***************************************************************************)
(* C15: when the search has ended without a path (the goal unreachable,    *)
(* the heap empty, no task left, the dispatcher asleep), the request has   *)
(* ended with a failed result or is about to; it never ends in a panic.    *)
(***************************************************************************)
C15_NoPathIsAResult ==
    /\ route # RoutePanic
    /\ (/\ ~ GoalReachable /\ AccessorNeverFails
        /\ to_see = {} /\ workers = {} /\ dispatcher = "recv") =>
            (route.kind = "Failed" \/ ENABLED (MainRecv \/ RouteReturn))

(***************************************************************************)
(* C16: an error of the accessor in a task ends the search only: the       *)
(* process is never aborted by it.                                         *)
(***************************************************************************)
C16_AccessorErrorEndsSearchOnly ==
    main # "aborted" /\ route # ProcessAbort

(***************************************************************************)
(* For stating the claims about costs: the adjacent edge behind an entry   *)
(* of a fresh successor list, and the tag predicates of the specification. *)
(***************************************************************************)
\* The adjacent edges of the node of t that are not forbidden: entry k of
\* the list t got belongs to edge k of them.
FreshEdges(t) ==
    SelectSeq(NodeOfTask(t).adjacent_nodes, LAMBDA a : ~ Forbidden(a.tags))

\* Dedicated cycleway / designated.
Dedicated(tags) ==
    <<"highway", "cycleway">> \in tags \/ <<"bicycle", "designated">> \in tags

\* Lane, shared-lane and track variants.
Laned(tags) ==
    \/ <<"bicycle", "yes">> \in tags
    \/ \E p \in tags :
          /\ p[1] \in {"cycleway", "cycleway:left", "cycleway:right",
                       "cycleway:both"}
          /\ p[2] \in {"shared_lane", "opposite_lane", "lane", "track"}

\* No modifier outside the class chain applies: no route tag, no maxspeed.
ClassOnly(tags) == ~ \E p \in tags : p[1] \in {"route", "maxspeed"}

Footway(tags) == <<"highway", "footway">> \in tags

Dirt(tags) == <<"surface", "dirt">> \in tags

Dismount(tags) == <<"bicycle", "dismount">> \in tags

\* The three penalties of the Fast profile on the edge a with cost c, the
\* footway one being tenths.
FastPenalties(a, c, footway) ==
    (ClassOnly(a.tags) /\ ~ Dedicated(a.tags) /\ ~ Laned(a.tags)) =>
        /\ Footway(a.tags) => c = (a.distance * footway) \div 10
        /\ (Dirt(a.tags) /\ ~ Footway(a.tags)) => c = a.distance * 5
        /\ (Dismount(a.tags) /\ ~ Footway(a.tags) /\ ~ Dirt(a.tags)) =>
              c = a.distance * 3

(***************************************************************************)
(* C17 as stated: in the Fast profile a footway without preferred          *)
(* infrastructure costs the distance x5, a dirt edge x5, a dismount        *)
(* edge x3.                                                                *)
(***************************************************************************)
C17_FastFootwayTimesFive ==
    \A t \in workers :
        (JustExpanded(t) /\ World.model = "Fast") =>
            \A k \in DOMAIN t.successors :
                FastPenalties(FreshEdges(t)[k], t.successors[k].move_cost, 50)

(***************************************************************************)
(* C17 amended: in the Fast profile a footway without preferred            *)
(* infrastructure costs the distance x1.1; a dirt edge costs x5 and a      *)
(* dismount edge x3.                                                       *)
(***************************************************************************)
C17_FastPenalties ==
    \A t \in workers :
        (JustExpanded(t) /\ World.model = "Fast") =>
            \A k \in DOMAIN t.successors :
                FastPenalties(FreshEdges(t)[k], t.successors[k].move_cost, 11)

\* A Fast footway of 13 m expanded: cost 14.
C17_Witness ==
    /\ World.model = "Fast"
    /\ \E t \in workers :
          /\ JustExpanded(t)
          /\ Footway(FreshEdges(t)[1].tags)
          /\ ClassOnly(FreshEdges(t)[1].tags)
          /\ ~ Dirt(FreshEdges(t)[1].tags)
          /\ FreshEdges(t)[1].distance = 13
          /\ t.successors[1].move_cost = 14

\* Bicycles are forbidden on the edge.
NoBicycles(tags) == <<"bicycle", "no">> \in tags

\* The entries of a successor list that lead to the node id.
EntriesTo(list, id) == {j \in DOMAIN list : list[j].node = id}

\* A footway that no other modifier applies to.
PlainFootway(tags) ==
    Footway(tags) /\ ClassOnly(tags) /\ ~ Dedicated(tags) /\ ~ Laned(tags)

(***************************************************************************)
(* C18 as stated: in the Safe profile expand returns a footway on which    *)
(* bicycles are forbidden with the distance x10, and a footway without     *)
(* the prohibition with the distance x1.1.                                 *)
(***************************************************************************)
C18_ForbiddenFootwayTimesTen ==
    [][\A t \in workers :
          (WorkerFetch(t) /\ World.model = "Safe") =>
              LET adj == NodeOfTask(t).adjacent_nodes IN
              \A k \in DOMAIN adj :
                  PlainFootway(adj[k].tags \ {<<"bicycle", "no">>}) =>
                      \E j \in EntriesTo(Fetched(t), adj[k].node_id) :
                          Fetched(t)[j].move_cost =
                              IF NoBicycles(adj[k].tags)
                              THEN adj[k].distance * 10
                              ELSE (adj[k].distance * 11) \div 10]_vars

(***************************************************************************)
(* C18 amended: in the Safe profile expand returns a footway without the   *)
(* prohibition with the distance x1.1, and returns no entry at all for a   *)
(* footway on which bicycles are forbidden.                                *)
(***************************************************************************)
C18_SafeFootway ==
    [][\A t \in workers :
          (WorkerFetch(t) /\ World.model = "Safe") =>
              LET adj == NodeOfTask(t).adjacent_nodes IN
              \A k \in DOMAIN adj :
                  PlainFootway(adj[k].tags \ {<<"bicycle", "no">>}) =>
                      IF NoBicycles(adj[k].tags)
                      THEN Cardinality(EntriesTo(Fetched(t), adj[k].node_id))
                           <= Cardinality({i \in DOMAIN adj :
                                  /\ adj[i].node_id = adj[k].node_id
                                  /\ ~ NoBicycles(adj[i].tags)})
                      ELSE \E j \in EntriesTo(Fetched(t), adj[k].node_id) :
                              Fetched(t)[j].move_cost
                                  = (adj[k].distance * 11) \div 10]_vars

\* The start node of a Safe store whose only edge is a footway closed to
\* bicycles has been expanded: nothing was added to the map or the heap.
C18_Witness ==
    /\ World.model = "Safe"
    /\ Len(NodeOf(World.start).adjacent_nodes) = 1
    /\ PlainFootway(NodeOf(World.start).adjacent_nodes[1].tags
                        \ {<<"bicycle", "no">>})
    /\ NoBicycles(NodeOf(World.start).adjacent_nodes[1].tags)
    /\ Len(parents) = 1
    /\ to_see = {}
    /\ workers = {}


\* route=bicycle, which the specification lists with the x0.8 variants.
BicycleRoute(tags) == <<"route", "bicycle">> \in tags

\* No modifier of the tail of the cost computation applies: no ferry, no
\* speed limit.
NoTailModifier(tags) ==
    ~ \E p \in tags : p[1] = "maxspeed" \/ p = <<"route", "ferry">>

(***************************************************************************)
(* C19: in the Safe profile only the first matching class modifier is      *)
(* applied: an edge with preferred infrastructure costs exactly the        *)
(* distance x0.7 (cycleway, designated) or exactly x0.8 (lane, shared-lane *)
(* and track variants, route=bicycle), whatever lower-priority tag it      *)
(* carries.                                                                *)
(***************************************************************************)
C19_FirstMatchOnly ==
    \A t \in workers :
        (JustExpanded(t) /\ World.model = "Safe"
            /\ Len(FreshEdges(t)) = Len(t.successors)) =>
            \A k \in DOMAIN t.successors :
                LET a == FreshEdges(t)[k]
                    c == t.successors[k].move_cost
                IN  NoTailModifier(a.tags) =>
                      /\ Dedicated(a.tags) => c = (a.distance * 7) \div 10
                      /\ (~ Dedicated(a.tags)
                            /\ (Laned(a.tags) \/ BicycleRoute(a.tags))) =>
                              c = (a.distance * 8) \div 10


\* A speed limit above 50 on the edge (the stores use 70).
Fast70(tags) == <<"maxspeed", "70">> \in tags

Ferry(tags) == <<"route", "ferry">> \in tags

\* The cost c of the edge a is distance x num / den, truncated once.
Once(a, c, num, den) == c = (a.distance * num) \div den

\* Every edge that more than one modifier applies to costs the single
\* truncation of the distance times the product of its modifiers.
TruncatedOnce ==
    \A t \in workers :
        (JustExpanded(t) /\ Len(FreshEdges(t)) = Len(t.successors)) =>
            \A k \in DOMAIN t.successors :
                LET a == FreshEdges(t)[k]
                    c == t.successors[k].move_cost
                    safe == World.model = "Safe"
                IN  (Dedicated(a.tags) /\ ~ Ferry(a.tags)) =>
                      /\ (safe /\ BicycleRoute(a.tags) /\ Fast70(a.tags)) =>
                            Once(a, c, 672, 1000)
                      /\ (safe /\ BicycleRoute(a.tags) /\ ClassOnly(a.tags \ {<<"route", "bicycle">>})) =>
                            Once(a, c, 56, 100)
                      /\ (safe /\ ~ BicycleRoute(a.tags) /\ Fast70(a.tags)) =>
                            Once(a, c, 84, 100)
                      /\ (~ safe /\ BicycleRoute(a.tags)) =>
                            Once(a, c, 64, 100)

\* End-to-end scenario 1: the Safe search on the line 1 - 2 - 3 of
\* cycleway edges of 10 m returns the path 1, 2, 3 with cost 14.
LineScenario ==
    (World = LineWorld /\ main = "returned") =>
        r = [path |-> <<1, 2, 3>>, cost |-> 14]

(***************************************************************************)
(* C20: the cost of an edge is the distance times the product of its       *)
(* modifiers, truncated once; the cost of a returned path is the sum of    *)
(* the integer costs of its edges; the Safe search on the line 1 - 2 - 3   *)
(* returns the path 1, 2, 3 with cost 14.                                  *)
(***************************************************************************)
C20_TruncatedOnceAndSummed ==
    /\ TruncatedOnce
    /\ ReachedGoal => \E s \in PathSums(r.path) : s = r.cost
    /\ LineScenario


(***************************************************************************)
(* For stating the claims about the search loop.                           *)
(***************************************************************************)
\* The cost the map records for the node of the entry the task was given.
Recorded(t) == get_index(parents, t.index).cost

\* The entry of the task is stale: its cost exceeds the recorded one.
Stale(t) == t.cost > Recorded(t)

(***************************************************************************)
(* C21: a task whose entry is stale when it examines it is discarded at    *)
(* once: the task ends there, even at a node that passes the goal test,    *)
(* and the map, the heap and the result channel are left as they were.     *)
(***************************************************************************)
C21_StaleEntryDiscarded ==
    [][\A t \in workers :
          (WorkerExamine(t) /\ Stale(t)) =>
              /\ workers' = workers \ {t}
              /\ UNCHANGED <<parents, to_see, rx_success, done>>]_vars


\* The successor a task at "update" is about to record, and its cost.
Candidate(t) == Head(t.successors).node

CandidateCost(t) == t.cost + Head(t.successors).move_cost

\* The candidate is no better than what the map records for its node.
NoBetter(t) ==
    /\ IndexOfKey(parents, Candidate(t)) # -1
    /\ CandidateCost(t)
          >= get_index(parents, IndexOfKey(parents, Candidate(t))).cost

(***************************************************************************)
(* C22: during a search the map only grows and no node changes its index;  *)
(* a record is replaced only by one of strictly lower cost; a candidate    *)
(* that is no better than the record of its node changes nothing in the    *)
(* map and leads to no push.                                               *)
(***************************************************************************)
C22_RecordsOnlyImprove ==
    [][\/ SearchAgain
       \/ /\ Len(parents') >= Len(parents)
          /\ \A i \in DOMAIN parents :
                /\ parents'[i].node = parents[i].node
                /\ parents'[i] # parents[i] =>
                      parents'[i].cost < parents[i].cost
          /\ \A t \in workers :
                (WorkerUpdate(t) /\ NoBetter(t)) =>
                    /\ parents' = parents
                    /\ to_see' = to_see
                    /\ \A u \in workers' : u.pc \in {"push", "notify"} =>
                                               u \in workers]_vars

\* The ferry request: node 3 was recorded first with the cost of the ferry
\* and holds, at the same index, the cost 30 by way of node 2.
C22_Witness ==
    /\ World = FerryWorld
    /\ Len(parents) = 3
    /\ parents[2] = [node |-> 3, parent |-> 2, cost |-> 30]
    /\ parents[3].node = 2


(***************************************************************************)
(* C23: no task expands a node (fetches its successors, records one of     *)
(* them) with a cost that exceeds the cost the map records for that node   *)
(* at that moment, under any interleaving of tasks.                        *)
(***************************************************************************)
C23_NoExpansionWithWorseCost ==
    [][\A t \in workers :
          (WorkerFetch(t) \/ WorkerUpdate(t)) => ~ Stale(t)]_vars


(***************************************************************************)
(* C24: once the done flag is set, no task records anything in the map and *)
(* none pushes an entry onto the heap, the tasks already running included. *)
(***************************************************************************)
C24_NothingAfterDone ==
    [][(done /\ ~ SearchAgain) =>
          /\ parents' = parents
          /\ to_see' \subseteq to_see]_vars


\* What a task at "send" is about to send.
Sending(t) == [path |-> t.path, cost |-> t.cost]

(***************************************************************************)
(* C25: one result is delivered per call of the search: once the caller    *)
(* has its result, no later task that finds the goal replaces or alters    *)
(* it, and the send of such a task fails without an error: the task ends   *)
(* and nothing reaches the caller.                                         *)
(***************************************************************************)
C25_OneResult ==
    [][(main = "returned" /\ ~ SearchAgain) =>
          /\ r' = r
          /\ main' = "returned"
          /\ rx_success' = rx_success
          /\ \A t \in workers :
                WorkerSend(t) => workers' = workers \ {t}]_vars

\* The caller has returned the land route with cost 30; the task of the
\* stale entry of the ferry, which found the goal too, is about to send
\* the same path with cost 800.
C25_Witness ==
    /\ World = FerryWorld
    /\ main = "returned"
    /\ r = [path |-> <<1, 2, 3>>, cost |-> 30]
    /\ \E t \in workers :
          /\ t.pc = "send"
          /\ Sending(t) = [path |-> <<1, 2, 3>>, cost |-> 800]


\* The locks a task holds.
Holds(t) ==
    {l \in {"parents", "to_see"} :
        \/ l = "parents" /\ parents_lock = Key(t)
        \/ l = "to_see" /\ to_see_lock = Key(t)}

(***************************************************************************)
(* C26: a task that is calling node.successors, or is about to, holds      *)
(* neither the lock of the heap nor the lock of the map.                   *)
(***************************************************************************)
C26_FetchOutsideLocks ==
    \A t \in workers : t.pc = "fetch" => Holds(t) = {}

\* One task is about to fetch successors while another holds the lock of
\* the heap for its push.
C26_Witness ==
    \E t, u \in workers :
        /\ t.pc = "fetch"
        /\ Holds(t) = {}
        /\ u.pc = "notify"
        /\ Holds(u) = {"to_see"}


(***************************************************************************)
(* C27: every push adds the entry of the successor being processed, with   *)
(* cost = new_cost, the index of the successor in the map and              *)
(* estimated_cost = new_cost + the distance from the successor to the end  *)
(* node, for a new record and for an improved one alike.                   *)
(***************************************************************************)
C27_PushedEntry ==
    [][\A t \in workers :
          WorkerPush(t) =>
              to_see' = to_see \cup
                  {SmallestCostHolder(
                      CandidateCost(t) + Heuristic(w, Candidate(t)),
                      CandidateCost(t),
                      IndexOfKey(parents, Candidate(t)))}]_vars


\* The entry a step of the dispatcher takes off the heap.
Popped == CHOOSE e \in to_see : to_see' = to_see \ {e}

PopsEntry == DispatcherPop /\ to_see # {}

(***************************************************************************)
(* C28 as stated: each pop takes an entry of least estimated_cost, and     *)
(* among the entries of that estimated_cost one of least cost.             *)
(***************************************************************************)
C28_TiesToLowerCost ==
    [][PopsEntry =>
          \A o \in to_see :
              /\ Popped.estimated_cost <= o.estimated_cost
              /\ o.estimated_cost = Popped.estimated_cost =>
                    Popped.cost <= o.cost]_vars

(***************************************************************************)
(* C28 amended: each pop takes an entry of least estimated_cost, and among *)
(* the entries of that estimated_cost one of greatest cost.                *)
(***************************************************************************)
C28_TiesToHigherCost ==
    [][PopsEntry =>
          \A o \in to_see :
              /\ Popped.estimated_cost <= o.estimated_cost
              /\ o.estimated_cost = Popped.estimated_cost =>
                    Popped.cost >= o.cost]_vars

\* The heap held the entries of node 2 (cost 10) and of node 3 (cost 20),
\* both estimated 20, and the entry of node 3 has been popped first.
C28_Witness ==
    /\ World = TieWorld
    /\ to_see = {SmallestCostHolder(20, 10, 1)}
    /\ \E t \in workers : Key(t) = <<20, 2>> /\ t.pc = "spawned"


\* The record of the start node: the sentinel parent, cost 0.
StartRecord == [node |-> World.start, parent |-> UsizeMax, cost |-> 0]

\* The map and the heap a search starts with.
Seeded ==
    /\ parents = <<StartRecord>>
    /\ to_see = {SmallestCostHolder(0, 0, 0)}

(***************************************************************************)
(* C29: a search starts with the map holding only the start node, with the *)
(* sentinel parent and cost 0, at index 0, and the heap holding only the   *)
(* entry (0, 0, index 0); index 0 of the map keeps that record throughout. *)
(***************************************************************************)
C29_StartRecordKept ==
    /\ Seeded
    /\ [][SearchAgain => Seeded']_vars
    /\ [](get_index(parents, 0) = StartRecord)

\* On the line 1 - 2 - 3 node 2 has been expanded to the end: its task has
\* offered the way back to node 1 at cost 14, and gone.
C29_Witness ==
    /\ World = LineWorld
    /\ Len(parents) = 3
    /\ get_index(parents, 0) = StartRecord
    /\ \A t \in workers : t.index # 1
    /\ \A e \in to_see : e.index # 1
    /\ [node |-> 1, move_cost |-> 7] \in Range(SuccessorsTable[w][2].node)


\* The dispatcher closure is neither popping nor waiting for a push.
DispatcherStopped == dispatcher \notin {"pop", "recv"}

(***************************************************************************)
(* C30: after a call of the search has returned, its dispatcher and its    *)
(* tasks eventually stop (or the caller has gone on to a new call): no     *)
(* thread of a finished call runs or stays blocked for ever.               *)
(***************************************************************************)
C30_ThreadsStopAfterReturn ==
    (main = "returned") ~>
        (main # "returned" \/ (DispatcherStopped /\ workers = {}))


(***************************************************************************)
(* For stating the claims about the parent links.                          *)
(***************************************************************************)
\* The indices met by following the parents from index i, i first, until
\* an index that is not in the map or until fuel steps were made.
RECURSIVE Chain(_, _, _)
Chain(map, i, fuel) ==
    IF ~ ValidIndex(map, i) \/ fuel = 0 THEN <<>>
    ELSE <<i>> \o Chain(map, get_index(map, i).parent, fuel - 1)

NoRepeat(seq) == \A j, k \in DOMAIN seq : seq[j] = seq[k] => j = k

(***************************************************************************)
(* C31: in every state the parent links are acyclic: from any index the    *)
(* chain of parents meets no index twice and ends at index 0, whose parent *)
(* is the sentinel; the path rebuilt from any index repeats no node.       *)
(***************************************************************************)
C31_ParentsAcyclic ==
    \A i \in 0 .. Len(parents) - 1 :
        LET chain == Chain(parents, i, Len(parents) + 1) IN
        /\ NoRepeat(chain)
        /\ Last(chain) = 0
        /\ get_index(parents, 0).parent = UsizeMax
        /\ NoRepeat(reverse_path(parents, i))

\* The detour request with all four nodes recorded and node 3 improved:
\* the chain from node 4 runs over 3 and 2 to the start.
C31_Witness ==
    /\ World = DetourWorld
    /\ Len(parents) = 4
    /\ Chain(parents, 3, 5) = <<3, 1, 2, 0>>
    /\ reverse_path(parents, 3) = <<1, 2, 3, 4>>


\* The least total move cost from the start to every node it reaches.
LeastTable ==
    [wi \in SearchWorlds |->
        [id \in DOMAIN Worlds[wi].nodes |->
            IF Reaches(wi, Worlds[wi].start, id)
            THEN LeastCost(wi, Worlds[wi].start, id) ELSE NoCost]]

(***************************************************************************)
(* C32: in every state, for every record but the start's, the cost is at   *)
(* least the cost recorded for its parent plus the move cost of an edge    *)
(* from the parent to the node; it is then at least the cost of the path   *)
(* the parent links give, and at least the least cost from the start.      *)
(***************************************************************************)
C32_CostAtLeastParentPlusMove ==
    \A i \in 1 .. Len(parents) - 1 :
        LET n == get_index(parents, i)
            p == get_index(parents, n.parent)
        IN  /\ ValidIndex(parents, n.parent)
            /\ \E c \in EdgeCosts(w, p.node, n.node) : n.cost >= p.cost + c
            /\ \E s \in PathSums(reverse_path(parents, i)) : n.cost >= s
            /\ LeastTable[w][n.node] # NoCost
            /\ n.cost >= LeastTable[w][n.node]

\* The detour request: node 4 was recorded at 820 by the task of the ferry
\* entry of node 3, and node 3 holds 30 by way of node 2.
C32_Witness ==
    /\ World = DetourWorld
    /\ Len(parents) = 4
    /\ get_index(parents, 1) = [node |-> 3, parent |-> 2, cost |-> 30]
    /\ get_index(parents, 3) = [node |-> 4, parent |-> 1, cost |-> 820]


\* The dispatcher waits for a push while the heap holds an entry.
WaitsOverEntry == dispatcher = "recv" /\ to_see # {}

(***************************************************************************)
(* C33: no wake-up is lost: whenever the dispatcher waits for a push while *)
(* the heap holds an entry, the message of that push is in the channel or  *)
(* its task is about to send it, and the dispatcher goes on to pop.        *)
(***************************************************************************)
C33_NoLostWakeUp ==
    /\ [](WaitsOverEntry =>
            \/ rx_to_see_push > 0
            \/ \E t \in workers : t.pc = "notify")
    /\ WaitsOverEntry ~> (dispatcher = "pop")

\* The dispatcher found the heap empty and waits; a task has pushed an
\* entry and has not sent its message yet.
C33_Witness ==
    /\ WaitsOverEntry
    /\ rx_to_see_push = 0
    /\ \E t \in workers : t.pc = "notify" /\ Holds(t) = {"to_see"}


(***************************************************************************)
(* C34: no task ever holds the lock of the heap and the lock of the map at *)
(* the same time (the dispatcher only ever takes the lock of the heap), so *)
(* no task holds one of the two mutexes while it waits for the other.      *)
(***************************************************************************)
C34_NeverBothLocks ==
    /\ \A t \in workers : Cardinality(Holds(t)) <= 1
    /\ \A t \in workers :
          /\ t.pc \in {"examine", "update"} => "to_see" \notin Holds(t)
          /\ t.pc = "push" => "parents" \notin Holds(t)

\* Both mutexes are held, by two tasks: one sends its result under the
\* lock of the map, the other has pushed under the lock of the heap.
C34_Witness ==
    \E t, u \in workers :
        /\ Holds(t) = {"parents"}
        /\ t.pc \in {"store_done", "send"}
        /\ Holds(u) = {"to_see"}
        /\ u.pc = "notify"

====
